---- MODULE Spec2Model ----
(***************************************************************************)
(* Forecast retrieval pipeline of app.py: the hour-bucketed cache, the     *)
(* primary (Stormglass) fetch, the per-hour aggregation, the Open-Meteo    *)
(* fallback and the cache store, as run by the /whatsapp webhook.          *)
(*                                                                         *)
(* Time is the UTC wall clock in minutes since an epoch day 0, 00:00.      *)
(* Texts are records [kind, body]; Python's None is the text NONE.         *)
(***************************************************************************)
EXTENDS Integers, Sequences, FiniteSets, TLC

\* ------------------------------------------------------------------ bounds
\* Number of request slots (webhook worker threads).
NumReq == 2
\* The clock starts at StartHour:00 of day 0 and advances ClockStep minutes
\* per tick, for at most MaxElapsed minutes.
StartHour == 23
ClockStep == 15
MaxElapsed == 60

\* --------------------------------------------------------------- constants
MinutesPerHour == 60
HoursPerDay == 24
MinutesPerDay == MinutesPerHour * HoursPerDay
CACHE_TTL_MINUTES == 30

\* SPOTS: the registered location keys (coordinates play no part in control flow).
SPOTS == {"balneario", "guarda", "itajai", "floripa"}
\* Location keys requests are drawn from: two registered keys and an unknown one.
RequestSpots == {"balneario", "guarda", "ubatuba"}

\* Variant of the source order: sg is consulted before noaa.
SOURCES_PRIORITY_sg_first == <<"sg", "noaa", "meteo">>

SOURCES_PRIORITY == <<"noaa", "sg", "meteo">>

Req == 1..NumReq
NoReq == 0

\* Python None, for numbers and for timestamps.
NoneVal == -1

\* ------------------------------------------------------------------- texts
NONE == [kind |-> "None", body |-> <<>>]
MSG_NOT_FOUND == [kind |-> "not_found", body |-> <<>>]
MSG_FAILURE == [kind |-> "failure", body |-> <<>>]
MSG_INSUFFICIENT == [kind |-> "insufficient", body |-> <<>>]
\* An exception that leaves get_surf_forecast uncaught.
FAULT == [kind |-> "fault", body |-> <<>>]

\* `x or y` / `if x` of Python on a text or None (no produced text is empty).
Truthy(t) == t.kind # "None"
Or(a, b) == IF Truthy(a) THEN a ELSE b

\* str.title() on the registered keys.
Title(s) ==
    CASE s = "balneario" -> "Balneario"
      [] s = "guarda" -> "Guarda"
      [] s = "itajai" -> "Itajai"
      [] s = "floripa" -> "Floripa"
      [] OTHER -> s

\* ------------------------------------------------------------- arithmetic
RECURSIVE SumSeq(_)
SumSeq(s) == IF s = <<>> THEN 0 ELSE Head(s) + SumSeq(Tail(s))

\* f"{sum/n:.1f}" for whole-number inputs: the quotient in tenths, rounded to
\* nearest, an exact tie going to the even digit.
Format1f(sum, n) ==
    LET q == (10 * sum) \div n
        r == (10 * sum) % n
    IN  IF 2 * r < n THEN q
        ELSE IF 2 * r > n THEN q + 1
        ELSE IF q % 2 = 0 THEN q ELSE q + 1

\* int(x) of Python on the rational a/b, b > 0: truncation toward zero.
\* Variant of int(): rounding towards minus infinity.
Trunc_floor(a, b) == a \div b

Trunc(a, b) == IF a >= 0 THEN a \div b ELSE -((-a) \div b)

dirs == <<"Norte", "Nordeste", "Leste", "Sudeste", "Sul", "Sudoeste", "Oeste", "Noroeste">>

\* degrees_to_direction on the rational bearing num/den (den > 0):
\* int((degrees + 22.5) / 45) % 8.
degrees_to_direction(num, den) ==
    LET ix == Trunc(2 * num + 45 * den, 90 * den) % 8
    IN  dirs[ix + 1]

\* ------------------------------------------------------------------- clock
\* now.replace(minute=0, ...).strftime('%Y-%m-%dT%H'): <<date, hour>>.
strftime_hour(t) == << t \div MinutesPerDay, (t % MinutesPerDay) \div MinutesPerHour >>
\* datetime.strptime(s, '%Y-%m-%dT%H'): the instant the bucket starts.
strptime_hour(b) == b[1] * MinutesPerDay + b[2] * MinutesPerHour
\* datetime.date()
DateOf(t) == t \div MinutesPerDay

\* Variants of is_cache_valid: the age compared in seconds against the TTL in
\* minutes; strptime rejecting the string, so that the bare except answers False.
is_cache_valid_minutes(cache_time_str, t) ==
    (t - strptime_hour(cache_time_str)) * 60 < CACHE_TTL_MINUTES
is_cache_valid_never(cache_time_str, t) == FALSE
\* Variant: an entry is valid for as long as its hour is the current one.
is_cache_valid_same_hour(cache_time_str, t) == strftime_hour(t) = cache_time_str

\* is_cache_valid(cache_time_str) evaluated at instant t.
is_cache_valid(cache_time_str, t) ==
    (t - strptime_hour(cache_time_str)) * 60 < CACHE_TTL_MINUTES * 60

\* The key both cache functions build at instant t.
cache_key(s, t) == << s, strftime_hour(t) >>

\* dict.get(key) on the cache map.
CacheGet(cache, k) == IF k \in DOMAIN cache THEN cache[k] ELSE NONE

\* CACHE[key] = forecast_msg
CachePut(cache, k, text) ==
    [x \in DOMAIN cache \cup {k} |-> IF x = k THEN text ELSE cache[x]]

\* Variant of the lookup: any entry of the location is taken, whatever its hour.
cache_lookup_anyhour(cache, k, t) ==
    IF \E x \in DOMAIN cache : x[1] = k[1]
    THEN cache[CHOOSE x \in DOMAIN cache : x[1] = k[1]]
    ELSE NONE

\* Lines 45-49 of get_cached_forecast, run at instant t under the lock.
cache_lookup(cache, k, t) ==
    LET entry == CacheGet(cache, k)
    IN  IF Truthy(entry) /\ is_cache_valid(k[2], t) THEN entry ELSE NONE

\* ------------------------------------------------------- upstream responses
\* One parameter of an hourly record: the JSON value null, or an object giving a
\* value or null per source (an absent parameter reads like an object of nulls).
Param(a, b, c) == [shape |-> "dict", noaa |-> a, sg |-> b, meteo |-> c]
NullParam == [shape |-> "null", noaa |-> NoneVal, sg |-> NoneVal, meteo |-> NoneVal]
NoParam == Param(NoneVal, NoneVal, NoneVal)

Params == <<"waveHeight", "wavePeriod", "windSpeed", "windDirection">>

Hour(t, wh, wp, ws, wd) ==
    [time |-> t, waveHeight |-> wh, wavePeriod |-> wp, windSpeed |-> ws, windDirection |-> wd]

\* Representative hourly records stamped t (NoneVal: 'time' missing or unparsable).
\* Every field reported by the first source.
HourFull(t) ==
    Hour(t, Param(1, 3, 3), Param(8, NoneVal, NoneVal), Param(5, NoneVal, 9), Param(90, NoneVal, NoneVal))
\* Fields reported only by lower-priority sources.
HourLow(t) ==
    Hour(t, Param(NoneVal, 2, 4), Param(NoneVal, NoneVal, 11), Param(NoneVal, 4, NoneVal), Param(NoneVal, NoneVal, 200))
\* One field unresolved.
HourPartial(t) ==
    Hour(t, Param(2, NoneVal, NoneVal), Param(9, NoneVal, NoneVal), Param(6, NoneVal, NoneVal), NoParam)
\* One parameter is JSON null.
HourNull(t) ==
    Hour(t, NullParam, Param(9, NoneVal, NoneVal), Param(6, NoneVal, NoneVal), Param(90, NoneVal, NoneVal))

\* The 'hours' arrays a response may carry when asked at instant t: records of
\* the current hour h and of an hour two hours on.
HoursLists(t) ==
    LET h == t - (t % MinutesPerHour)
        later == h + 2 * MinutesPerHour
    IN  { <<>>,
          << HourFull(h) >>,
          << HourFull(h), HourLow(h) >>,
          << HourFull(later) >>,
          << HourPartial(h), HourFull(later) >>,
          << HourPartial(h), HourFull(NoneVal) >>,
          << HourFull(h), HourNull(later) >>,
          << HourNull(NoneVal), HourLow(later), HourFull(h) >> }

Exception == [kind |-> "exception", status |-> 0, shape |-> "none", hours |-> <<>>]
Http(status) == [kind |-> "http", status |-> status, shape |-> "none", hours |-> <<>>]
Ok(shape, hours) == [kind |-> "http", status |-> 200, shape |-> shape, hours |-> hours]
NoResponse == [kind |-> "none", status |-> 0, shape |-> "none", hours |-> <<>>]

\* What requests.get on the Stormglass URL can produce at instant t.
PrimaryResponses(t) ==
    {Exception, Http(402), Http(500), Ok("notjson", <<>>), Ok("notdict", <<>>)}
        \cup { Ok("dict", hs) : hs \in HoursLists(t) }

\* What requests.get on the Open-Meteo URL can produce: body fields are the
\* 'hourly' arrays, NoneVal standing for a JSON null element.
FbException == [kind |-> "exception", status |-> 0, shape |-> "none", waves |-> <<>>, winds |-> <<>>]
FbHttp(status) == [kind |-> "http", status |-> status, shape |-> "none", waves |-> <<>>, winds |-> <<>>]
FbOk(shape, waves, winds) == [kind |-> "http", status |-> 200, shape |-> shape, waves |-> waves, winds |-> winds]

NoFbResponse == [kind |-> "none", status |-> 0, shape |-> "none", waves |-> <<>>, winds |-> <<>>]

FallbackResponses ==
    { FbException, FbHttp(400), FbOk("notjson", <<>>, <<>>), FbOk("nullhourly", <<>>, <<>>),
      FbOk("dict", <<>>, <<>>), FbOk("dict", <<1, 2>>, <<>>),
      FbOk("dict", <<1, 2>>, <<5>>),
      FbOk("dict", <<1, NoneVal>>, <<5>>) }

\* ------------------------------------------------------------- fallback
HasNone(s) == \E i \in 1..Len(s) : s[i] = NoneVal

\* fallback_open_meteo on the response r: a text, NONE, or FAULT when an
\* exception escapes it.
fallback_open_meteo(r) ==
    IF r.kind = "exception" THEN NONE
    ELSE IF r.status # 200 THEN NONE
    ELSE IF r.shape \in {"notjson", "nullhourly"} THEN FAULT
    ELSE IF r.waves = <<>> \/ r.winds = <<>> THEN NONE
    ELSE IF HasNone(r.waves) \/ HasNone(r.winds) THEN FAULT
    ELSE [kind |-> "fallback",
          body |-> << Format1f(SumSeq(r.waves), Len(r.waves)),
                      Format1f(SumSeq(r.winds), Len(r.winds)) >>]

\* `fb or default` at the four call sites; an escaping exception stays one.
FallbackReply(r, default) ==
    LET fb == fallback_open_meteo(r)
    IN  IF fb = FAULT THEN FAULT ELSE Or(fb, default)

\* ------------------------------------------------------------ aggregation
RECURSIVE FirstSource(_, _)
FirstSource(p, srcs) ==
    IF srcs = <<>> THEN NoneVal
    ELSE IF p[Head(srcs)] # NoneVal THEN p[Head(srcs)]
    ELSE FirstSource(p, Tail(srcs))

\* get_param_value(param_name) for the hour at hand.
get_param_value(hour_data, param_name) ==
    FirstSource(hour_data[param_name], SOURCES_PRIORITY)

\* The record raises in the loop body: .get on a null parameter.
HourRaises(hour_data) ==
    /\ hour_data.time # NoneVal
    /\ \E i \in 1..Len(Params) : hour_data[Params[i]].shape = "null"

\* The measure the loop appends for the hour, or <<>> for none.
Measure(hour_data) ==
    LET wh == get_param_value(hour_data, "waveHeight")
        wp == get_param_value(hour_data, "wavePeriod")
        ws == get_param_value(hour_data, "windSpeed")
        wd == get_param_value(hour_data, "windDirection")
    IN  IF NoneVal \notin {wh, wp, ws, wd}
        THEN << [wave_height |-> wh, wave_period |-> wp, wind_speed |-> ws, wind_dir |-> wd] >>
        ELSE <<>>

\* Variant of line 179: the measures of every date are taken (a rolling window).
RECURSIVE MeasuresOf_anydate(_, _)
MeasuresOf_anydate(hours, date) ==
    IF hours = <<>> THEN <<>>
    ELSE LET h == Head(hours)
         IN  (IF h.time # NoneVal THEN Measure(h) ELSE <<>>)
                 \o MeasuresOf_anydate(Tail(hours), date)

\* forecast_per_day.get(date, []) after the loop over hours.
RECURSIVE MeasuresOf(_, _)
MeasuresOf(hours, date) ==
    IF hours = <<>> THEN <<>>
    ELSE LET h == Head(hours)
         IN  (IF h.time # NoneVal /\ DateOf(h.time) = date THEN Measure(h) ELSE <<>>)
                 \o MeasuresOf(Tail(hours), date)

Field(measures, f) == [i \in 1..Len(measures) |-> measures[i][f]]

\* sum(...) / len(measures): a division by zero raises.
Average(measures, f) ==
    IF Len(measures) = 0 THEN NoneVal
    ELSE Format1f(SumSeq(Field(measures, f)), Len(measures))

\* Lines 177-195: the text built from a list of measures.
Summary(spot, measures) ==
    IF Len(measures) = 0 THEN FAULT
    ELSE [kind |-> "forecast",
          body |-> << Title(spot),
                      Average(measures, "wave_height"),
                      Average(measures, "wave_period"),
                      Average(measures, "wind_speed"),
                      degrees_to_direction(SumSeq(Field(measures, "wind_dir")), Len(measures)) >>]

\* Variant of line 181: the guard is missing.
NoMeasures_unguarded(measures) == FALSE

\* `if not measures` at line 181.
NoMeasures(measures) == measures = <<>>

\* Lines 133-195 on a 200 response, 'today' being the date read at line 178:
\* where control goes next and the text at hand.
Aggregate(spot, resp, today) ==
    IF resp.shape \in {"notjson", "notdict"} THEN [to |-> "raise", text |-> FAULT]
    ELSE IF resp.hours = <<>> THEN [to |-> "L139", text |-> NONE]
    ELSE IF \E i \in 1..Len(resp.hours) : HourRaises(resp.hours[i])
         THEN [to |-> "raise", text |-> FAULT]
    ELSE LET measures == MeasuresOf(resp.hours, today)
         IN  IF NoMeasures(measures) THEN [to |-> "L183", text |-> NONE]
             ELSE IF Summary(spot, measures) = FAULT THEN [to |-> "raise", text |-> FAULT]
             ELSE [to |-> "L52", text |-> Summary(spot, measures)]

\* ------------------------------------------------------------------- state
VARIABLES
    now,          \* the UTC wall clock, in minutes
    CACHE,        \* the cache map: <<spot, <<date, hour>>>> -> text
    CACHE_LOCK,   \* the request holding CACHE_LOCK, or NoReq
    pc,           \* per request: the source line it is about to run
    spot_name,    \* per request: the argument of get_surf_forecast
    key,          \* per request: the key local of the cache function it is in
    cached,       \* per request: what get_cached_forecast returned
    response,     \* per request: the primary response at hand
    forecast_msg, \* per request: the text built at lines 177-195
    ret,          \* per request: what get_surf_forecast returned (FAULT: it raised)
    hist,         \* per request: what the request has done so far
    prev,         \* the last request the webhook answered
    degrees,      \* the argument of a call of degrees_to_direction, as <<numerator, denominator>>
    direction,    \* what that call returned
    hours,        \* the list the loop of lines 144-174 runs over
    forecast_per_day, \* the map that loop builds: date -> measures
    applied       \* which of the two has been run on its own ("" for none)

\* The variables of a function run on its own.
call == << degrees, direction, hours, forecast_per_day, applied >>

vars == << now, CACHE, CACHE_LOCK, pc, spot_name, key, cached, response, forecast_msg, ret, hist, prev,
           call >>

NoHour == << NoneVal, NoneVal >>
NoKey == << "", NoHour >>

\* hist: upstream calls and cache accesses made, the hour the request arrived
\* in, the date read at line 178, what the fallback call produced, and the line
\* that returned.
NoHist == [primary |-> 0, fallback |-> 0, reads |-> 0, writes |-> 0,
           hour |-> NoHour, today |-> NoneVal, fb |-> NoFbResponse, via |-> "none"]

\* prev: the spot of the last answered request, the line that returned, the
\* forecast it built from the primary (if it did), and the hour it ran in
\* (NoHour if it ran across an hour boundary).
NoPrev == [spot |-> "", via |-> "none", forecast |-> NONE, hour |-> NoHour]

StartTime == StartHour * MinutesPerHour

\* The server after start-up: an empty cache, a free lock, no request.
InitServer ==
    /\ now = StartTime
    /\ CACHE = << >>
    /\ CACHE_LOCK = NoReq
    /\ pc = [r \in Req |-> "idle"]
    /\ spot_name = [r \in Req |-> ""]
    /\ key = [r \in Req |-> NoKey]
    /\ cached = [r \in Req |-> NONE]
    /\ response = [r \in Req |-> NoResponse]
    /\ forecast_msg = [r \in Req |-> NONE]
    /\ ret = [r \in Req |-> NONE]
    /\ hist = [r \in Req |-> NoHist]
    /\ prev = NoPrev

\* No function is being run on its own.
NoCall ==
    /\ degrees = << 0, 1 >>
    /\ direction = ""
    /\ hours = << >>
    /\ forecast_per_day = << >>
    /\ applied = ""

Init == InitServer /\ NoCall

\* ----------------------------------------------------------------- actions
\* Time passes.
Tick ==
    /\ now + ClockStep <= StartTime + MaxElapsed
    /\ now' = now + ClockStep
    /\ UNCHANGED << CACHE, CACHE_LOCK, pc, spot_name, key, cached, response, forecast_msg, ret, hist, prev, call >>

\* get_surf_forecast returns text (raises, when text is FAULT) at line `line`.
Returns(r, line, text) ==
    /\ pc' = [pc EXCEPT ![r] = "done"]
    /\ ret' = [ret EXCEPT ![r] = text]
    /\ hist' = [hist EXCEPT ![r] = [@ EXCEPT !.via = line]]

\* whatsapp_reply, lines 203-211: "surf <spot>" arrives and get_surf_forecast is called.
Start(r, s) ==
    /\ pc[r] = "idle"
    /\ pc' = [pc EXCEPT ![r] = "L93"]
    /\ spot_name' = [spot_name EXCEPT ![r] = s]
    /\ hist' = [hist EXCEPT ![r] = [@ EXCEPT !.hour = strftime_hour(now)]]
    /\ UNCHANGED << now, CACHE, CACHE_LOCK, key, cached, response, forecast_msg, ret, prev, call >>

\* Variant of line 93: the registry test is missing.
UnknownSpot_unchecked(s) == FALSE

\* `spot_name not in SPOTS` at line 93.
UnknownSpot(s) == s \notin SPOTS

\* Lines 93-94.
CheckSpot(r) ==
    /\ pc[r] = "L93"
    /\ IF UnknownSpot(spot_name[r])
       THEN Returns(r, "L94", MSG_NOT_FOUND)
       ELSE /\ pc' = [pc EXCEPT ![r] = "L42"]
            /\ UNCHANGED << ret, hist >>
    /\ UNCHANGED << now, CACHE, CACHE_LOCK, spot_name, key, cached, response, forecast_msg, prev, call >>

\* get_cached_forecast, lines 42-43: the key of the current hour.
GetKey(r) ==
    /\ pc[r] = "L42"
    /\ key' = [key EXCEPT ![r] = cache_key(spot_name[r], now)]
    /\ pc' = [pc EXCEPT ![r] = "L44"]
    /\ UNCHANGED << now, CACHE, CACHE_LOCK, spot_name, cached, response, forecast_msg, ret, hist, prev, call >>

\* Variant of line 44: the with-block is entered without waiting for the lock.
GetAcquire_unlocked(r) ==
    /\ pc[r] = "L44"
    /\ CACHE_LOCK' = r
    /\ pc' = [pc EXCEPT ![r] = "L45"]
    /\ UNCHANGED << now, CACHE, spot_name, key, cached, response, forecast_msg, ret, hist, prev, call >>

\* get_cached_forecast, line 44: with CACHE_LOCK.
GetAcquire(r) ==
    /\ pc[r] = "L44"
    /\ CACHE_LOCK = NoReq
    /\ CACHE_LOCK' = r
    /\ pc' = [pc EXCEPT ![r] = "L45"]
    /\ UNCHANGED << now, CACHE, spot_name, key, cached, response, forecast_msg, ret, hist, prev, call >>

\* Variant of lines 45-49: the lock is not released on leaving the block.
GetLookup_keeps_lock(r) ==
    /\ pc[r] = "L45"
    /\ CACHE_LOCK = r
    /\ CACHE_LOCK' = r
    /\ cached' = [cached EXCEPT ![r] = cache_lookup(CACHE, key[r], now)]
    /\ hist' = [hist EXCEPT ![r] = [@ EXCEPT !.reads = @ + 1]]
    /\ pc' = [pc EXCEPT ![r] = "L98"]
    /\ UNCHANGED << now, CACHE, spot_name, key, response, forecast_msg, ret, prev, call >>

\* get_cached_forecast, lines 45-49: the lookup, the validity test against the
\* clock, and the release of the lock on leaving the with-block.
GetLookup(r) ==
    /\ pc[r] = "L45"
    /\ CACHE_LOCK = r
    /\ CACHE_LOCK' = NoReq
    /\ cached' = [cached EXCEPT ![r] = cache_lookup(CACHE, key[r], now)]
    /\ hist' = [hist EXCEPT ![r] = [@ EXCEPT !.reads = @ + 1]]
    /\ pc' = [pc EXCEPT ![r] = "L98"]
    /\ UNCHANGED << now, CACHE, spot_name, key, response, forecast_msg, ret, prev, call >>

\* Variant of line 98: the cached text is ignored.
AfterCacheCheck_ignored(c) == "L115"

\* `if cached` at line 98: the line that runs next.
AfterCacheCheck(c) == IF Truthy(c) THEN "L99" ELSE "L115"

\* Lines 98-99.
TestCached(r) ==
    /\ pc[r] = "L98"
    /\ IF AfterCacheCheck(cached[r]) = "L99"
       THEN Returns(r, "L99", cached[r])
       ELSE /\ pc' = [pc EXCEPT ![r] = "L115"]
            /\ UNCHANGED << ret, hist >>
    /\ UNCHANGED << now, CACHE, CACHE_LOCK, spot_name, key, cached, response, forecast_msg, prev, call >>

\* Variants of the routing: every non-200 status goes to the fallback; a
\* network failure asks the primary again.
Route_any_status_falls_back(resp) ==
    IF resp.kind = "exception" THEN "L118"
    ELSE IF resp.status # 200 THEN "L126"
    ELSE "L133"
Route_retries(resp) ==
    IF resp.kind = "exception" THEN "L115"
    ELSE IF resp.status = 402 THEN "L126"
    ELSE IF resp.status # 200 THEN "L131"
    ELSE "L133"

\* Where line 115 and the status tests of lines 116-131 send a response.
Route(resp) ==
    IF resp.kind = "exception" THEN "L118"
    ELSE IF resp.status = 402 THEN "L126"
    ELSE IF resp.status # 200 THEN "L131"
    ELSE "L133"

\* Variant of line 115: the call waits while another request for the same
\* location is between its own primary call and its cache write.
PrimaryFetch_single_flight(r, resp) ==
    /\ pc[r] = "L115"
    /\ \A r2 \in Req \ {r} :
           ~(spot_name[r2] = spot_name[r] /\ pc[r2] \in {"L133", "L52", "L54", "L55"})
    /\ response' = [response EXCEPT ![r] = resp]
    /\ IF Route(resp) = "L131"
       THEN /\ pc' = [pc EXCEPT ![r] = "done"]
            /\ ret' = [ret EXCEPT ![r] = MSG_FAILURE]
            /\ hist' = [hist EXCEPT ![r] = [@ EXCEPT !.primary = @ + 1, !.via = "L131"]]
       ELSE /\ pc' = [pc EXCEPT ![r] = Route(resp)]
            /\ hist' = [hist EXCEPT ![r] = [@ EXCEPT !.primary = @ + 1]]
            /\ UNCHANGED ret
    /\ UNCHANGED << now, CACHE, CACHE_LOCK, spot_name, key, cached, forecast_msg, prev, call >>

\* Lines 101-131: the primary request and the routing of its outcome.
PrimaryFetch(r, resp) ==
    /\ pc[r] = "L115"
    /\ response' = [response EXCEPT ![r] = resp]
    /\ IF Route(resp) = "L131"
       THEN /\ pc' = [pc EXCEPT ![r] = "done"]
            /\ ret' = [ret EXCEPT ![r] = MSG_FAILURE]
            /\ hist' = [hist EXCEPT ![r] = [@ EXCEPT !.primary = @ + 1, !.via = "L131"]]
       ELSE /\ pc' = [pc EXCEPT ![r] = Route(resp)]
            /\ hist' = [hist EXCEPT ![r] = [@ EXCEPT !.primary = @ + 1]]
            /\ UNCHANGED ret
    /\ UNCHANGED << now, CACHE, CACHE_LOCK, spot_name, key, cached, forecast_msg, prev, call >>

\* Lines 133-195: parse, group by day, average; 'today' is read from the clock.
\* The body of the response is marked as read.
AggregateStep(r) ==
    /\ pc[r] = "L133"
    /\ LET a == Aggregate(spot_name[r], response[r], DateOf(now))
       IN  IF a.to = "raise"
           THEN /\ Returns(r, "raise", FAULT)
                /\ UNCHANGED forecast_msg
           ELSE /\ pc' = [pc EXCEPT ![r] = a.to]
                /\ forecast_msg' = [forecast_msg EXCEPT ![r] = a.text]
                /\ hist' = [hist EXCEPT ![r] =
                               [@ EXCEPT !.today = IF a.to = "L139" THEN @ ELSE DateOf(now)]]
                /\ UNCHANGED ret
    /\ response' = [response EXCEPT ![r] = [@ EXCEPT !.shape = "read"]]
    /\ UNCHANGED << now, CACHE, CACHE_LOCK, spot_name, key, cached, prev, call >>

\* Variant of the call sites: one text of their own after any failed fallback.
FallbackDefault_specific(line) == MSG_INSUFFICIENT

\* The text `fb or ...` falls back on at each call site of fallback_open_meteo.
FallbackDefault(line) ==
    IF line \in {"L118", "L126"} THEN MSG_FAILURE ELSE MSG_INSUFFICIENT

FallbackSites == {"L118", "L126", "L139", "L183"}

\* Variant of the fallback sites: a text obtained from the fallback is cached.
Fallback_cached(r, fbresp) ==
    /\ pc[r] \in FallbackSites
    /\ pc' = [pc EXCEPT ![r] = "done"]
    /\ ret' = [ret EXCEPT ![r] = FallbackReply(fbresp, FallbackDefault(pc[r]))]
    /\ hist' = [hist EXCEPT ![r] = [@ EXCEPT !.fallback = @ + 1, !.fb = fbresp, !.via = pc[r]]]
    /\ CACHE' = IF fallback_open_meteo(fbresp).kind = "fallback"
                THEN CachePut(CACHE, cache_key(spot_name[r], now), fallback_open_meteo(fbresp))
                ELSE CACHE
    /\ UNCHANGED << now, CACHE_LOCK, spot_name, key, cached, response, forecast_msg, prev, call >>

\* Lines 118-119, 126-127, 139-140, 183-184: the fallback request and its reply.
Fallback(r, fbresp) ==
    /\ pc[r] \in FallbackSites
    /\ pc' = [pc EXCEPT ![r] = "done"]
    /\ ret' = [ret EXCEPT ![r] = FallbackReply(fbresp, FallbackDefault(pc[r]))]
    /\ hist' = [hist EXCEPT ![r] = [@ EXCEPT !.fallback = @ + 1, !.fb = fbresp, !.via = pc[r]]]
    /\ UNCHANGED << now, CACHE, CACHE_LOCK, spot_name, key, cached, response, forecast_msg, prev, call >>

\* set_cached_forecast, lines 52-53.
SetKey(r) ==
    /\ pc[r] = "L52"
    /\ key' = [key EXCEPT ![r] = cache_key(spot_name[r], now)]
    /\ pc' = [pc EXCEPT ![r] = "L54"]
    /\ UNCHANGED << now, CACHE, CACHE_LOCK, spot_name, cached, response, forecast_msg, ret, hist, prev, call >>

\* set_cached_forecast, line 54: with CACHE_LOCK.
SetAcquire(r) ==
    /\ pc[r] = "L54"
    /\ CACHE_LOCK = NoReq
    /\ CACHE_LOCK' = r
    /\ pc' = [pc EXCEPT ![r] = "L55"]
    /\ UNCHANGED << now, CACHE, spot_name, key, cached, response, forecast_msg, ret, hist, prev, call >>

\* Variant of line 55: an entry already present is kept (first writer wins).
set_cached_forecast_keep_first(cache, k, text) ==
    IF k \in DOMAIN cache THEN cache ELSE CachePut(cache, k, text)

\* Variant of line 55: entries of other hours are dropped on every write.
set_cached_forecast_evicting(cache, k, text) ==
    [x \in {y \in DOMAIN cache : y[2] = k[2]} \cup {k} |-> IF x = k THEN text ELSE cache[x]]

\* What line 55 leaves in the map.
set_cached_forecast(cache, k, text) == CachePut(cache, k, text)

\* set_cached_forecast, line 55, then line 199 of the caller.
SetWrite(r) ==
    /\ pc[r] = "L55"
    /\ CACHE_LOCK = r
    /\ CACHE_LOCK' = NoReq
    /\ CACHE' = set_cached_forecast(CACHE, key[r], forecast_msg[r])
    /\ pc' = [pc EXCEPT ![r] = "done"]
    /\ ret' = [ret EXCEPT ![r] = forecast_msg[r]]
    /\ hist' = [hist EXCEPT ![r] = [@ EXCEPT !.writes = @ + 1, !.via = "L199"]]
    /\ UNCHANGED << now, spot_name, key, cached, response, forecast_msg, prev, call >>

\* whatsapp_reply, lines 212-218: the reply goes out (or the exception does) and
\* the worker is free again.
Reply(r) ==
    /\ pc[r] = "done"
    /\ prev' = [spot |-> spot_name[r], via |-> hist[r].via,
                forecast |-> IF hist[r].via = "L199" THEN ret[r] ELSE NONE,
                hour |-> IF hist[r].hour = strftime_hour(now) THEN hist[r].hour ELSE NoHour]
    /\ pc' = [pc EXCEPT ![r] = "idle"]
    /\ spot_name' = [spot_name EXCEPT ![r] = ""]
    /\ key' = [key EXCEPT ![r] = NoKey]
    /\ cached' = [cached EXCEPT ![r] = NONE]
    /\ response' = [response EXCEPT ![r] = NoResponse]
    /\ forecast_msg' = [forecast_msg EXCEPT ![r] = NONE]
    /\ ret' = [ret EXCEPT ![r] = NONE]
    /\ hist' = [hist EXCEPT ![r] = NoHist]
    /\ UNCHANGED << now, CACHE, CACHE_LOCK, call >>

\* No request is in flight.
AllIdle == \A r \in Req : pc[r] = "idle"

Step(r) ==
    \/ CheckSpot(r)
    \/ GetKey(r)
    \/ GetAcquire(r)
    \/ GetLookup(r)
    \/ TestCached(r)
    \/ \E resp \in PrimaryResponses(now) : PrimaryFetch(r, resp)
    \/ AggregateStep(r)
    \/ \E fbresp \in FallbackResponses : Fallback(r, fbresp)
    \/ SetKey(r)
    \/ SetAcquire(r)
    \/ SetWrite(r)
    \/ Reply(r)

\* Requests served one after the other: a message is taken up only when no
\* other request is in flight.
Next ==
    \/ Tick
    \/ \E r \in Req, s \in RequestSpots : AllIdle /\ Start(r, s)
    \/ \E r \in Req : Step(r)

Spec == Init /\ [][Next]_vars

\* ------------------------------------------------------------ concurrency
\* Requests served by concurrent workers: a message is taken up by any idle
\* worker while others are in flight. Inputs are narrowed to one location, the
\* primary outcomes that reach each exit and two distinct forecasts.
ConcSpots == {"balneario"}

ConcPrimaryResponses(t) ==
    LET h == t - (t % MinutesPerHour)
    IN  { Exception, Http(500),
          Ok("dict", << HourFull(h) >>),
          Ok("dict", << HourFull(h), HourLow(h) >>) }

ConcFallbackResponses == { FbException, FbOk("dict", <<1, 2>>, <<5>>) }

\* The steps of request r other than the two cache lock acquisitions.
Run(r) ==
    \/ CheckSpot(r)
    \/ GetKey(r)
    \/ GetLookup(r)
    \/ TestCached(r)
    \/ \E resp \in ConcPrimaryResponses(now) : PrimaryFetch(r, resp)
    \/ AggregateStep(r)
    \/ \E fbresp \in ConcFallbackResponses : Fallback(r, fbresp)
    \/ SetKey(r)
    \/ SetWrite(r)
    \/ Reply(r)

\* `with CACHE_LOCK` in either cache function.
Acquire(r) == GetAcquire(r) \/ SetAcquire(r)

ConcNext ==
    \/ Tick
    \/ \E r \in Req, s \in ConcSpots : Start(r, s)
    \/ \E r \in Req : Run(r)
    \/ \E r \in Req : Acquire(r)

SpecConc == Init /\ [][ConcNext]_vars

\* The same requests under a scheduler, with one primary outcome for each way
\* out of line 115 and a fallback that fails or answers. No step waits on the
\* clock, which is held still here.
LivePrimaryResponses(t) ==
    LET h == t - (t % MinutesPerHour)
    IN  { Exception, Http(500), Ok("dict", << >>), Ok("dict", << HourFull(h) >>) }

LiveFallbackResponses == { FbException, FbOk("dict", <<1, 2>>, <<5>>) }

LiveRun(r) ==
    \/ CheckSpot(r)
    \/ GetKey(r)
    \/ GetLookup(r)
    \/ TestCached(r)
    \/ \E resp \in LivePrimaryResponses(now) : PrimaryFetch(r, resp)
    \/ AggregateStep(r)
    \/ \E fbresp \in LiveFallbackResponses : Fallback(r, fbresp)
    \/ SetKey(r)
    \/ SetWrite(r)
    \/ Reply(r)

LiveNext ==
    \/ \E r \in Req, s \in ConcSpots : Start(r, s)
    \/ \E r \in Req : LiveRun(r)
    \/ \E r \in Req : Acquire(r)

\* A request that can take a step other than an acquisition eventually takes
\* it (every outbound call returns or times out, lines 71 and 115), and a
\* request waiting for the lock gets it if the lock keeps becoming free.
Fairness ==
    \A r \in Req : WF_vars(LiveRun(r)) /\ SF_vars(Acquire(r))

SpecLive == Init /\ [][LiveNext]_vars /\ Fairness

\* ---------------------------------------------- degrees_to_direction alone
\* Bearings are taken in half-degree steps from -MaxDegrees to MaxDegrees.
MaxDegrees == 400

DegreesInputs == { << n, 2 >> : n \in (0 - 2 * MaxDegrees) .. (2 * MaxDegrees) }

InitDirection ==
    /\ InitServer
    /\ degrees \in DegreesInputs
    /\ direction = ""
    /\ hours = << >>
    /\ forecast_per_day = << >>
    /\ applied = ""

\* A call of degrees_to_direction(degrees).
Direction ==
    /\ applied = ""
    /\ direction' = degrees_to_direction(degrees[1], degrees[2])
    /\ applied' = "degrees_to_direction"
    /\ UNCHANGED << now, CACHE, CACHE_LOCK, pc, spot_name, key, cached, response, forecast_msg,
                    ret, hist, prev, degrees, hours, forecast_per_day >>

SpecDirection == InitDirection /\ [][Direction]_vars

\* ------------------------------------------- the grouping loop alone
\* Lists of at most MaxHours hourly records.
MaxHours == 2

\* Time stamps: an hour of the first day, the same hour a day later, none.
HourTimes == { StartTime, StartTime + MinutesPerDay, NoneVal }

\* Records stamped t: the representative ones of the responses, one with each
\* of the other fields unresolved, and one whose first source reports zero.
HourKinds(t) ==
    { HourFull(t), HourLow(t), HourPartial(t),
      Hour(t, NoParam, Param(8, NoneVal, NoneVal), Param(5, NoneVal, 9), Param(90, NoneVal, NoneVal)),
      Hour(t, Param(1, 3, 3), NoParam, Param(5, NoneVal, 9), Param(90, NoneVal, NoneVal)),
      Hour(t, Param(1, 3, 3), Param(8, NoneVal, NoneVal), NoParam, Param(90, NoneVal, NoneVal)),
      Hour(t, Param(0, 3, 3), Param(NoneVal, 7, 6), Param(NoneVal, NoneVal, 2), Param(NoneVal, 180, 90)) }

HourInputs == UNION { HourKinds(t) : t \in HourTimes }

HoursInputs == UNION { [1..n -> HourInputs] : n \in 0..MaxHours }

InitGroup ==
    /\ InitServer
    /\ degrees = << 0, 1 >>
    /\ direction = ""
    /\ hours \in HoursInputs
    /\ forecast_per_day = << >>
    /\ applied = ""

\* forecast_per_day after the loop of lines 144-174 over the list hs: a key for
\* every date met, holding the measures appended for it.
ForecastPerDay(hs) ==
    [d \in { DateOf(hs[i].time) : i \in { j \in 1..Len(hs) : hs[j].time # NoneVal } }
        |-> MeasuresOf(hs, d)]

\* Lines 143-174 run over hours.
Group ==
    /\ applied = ""
    /\ forecast_per_day' = ForecastPerDay(hours)
    /\ applied' = "group"
    /\ UNCHANGED << now, CACHE, CACHE_LOCK, pc, spot_name, key, cached, response, forecast_msg,
                    ret, hist, prev, degrees, direction, hours >>

SpecGroup == InitGroup /\ [][Group]_vars

\* ------------------------------------------------------------ properties
\* The hour bucket and the minutes past the hour of an instant.
HourBucket(t) == << t \div MinutesPerDay, (t % MinutesPerDay) \div MinutesPerHour >>
MinutesPastHour(t) == t % MinutesPerHour

Finishes(r) == pc[r] # "done" /\ pc'[r] = "done"

\* The last answered request was for the spot of r and ran within the hour
\* that is current now.
FollowsInSameHour(r) ==
    /\ prev.spot = spot_name[r]
    /\ prev.hour = HourBucket(now)

\* C1: a request writes the cache iff it ends with a successful primary
\* aggregation (line 199), and then it stores exactly the text it returns under
\* (its location, the hour bucket current when set_cached_forecast built the
\* key); every other step leaves the cache unchanged; and the request that
\* follows, in the same hour, one that went to the fallback attempts the
\* primary again.
C1_CacheWrittenOnlyByPrimarySuccess ==
    [][ /\ CACHE' # CACHE => \E r \in Req : Finishes(r) /\ hist'[r].via = "L199"
        /\ \A r \in Req :
            /\ (pc[r] = "L52" /\ pc'[r] = "L54") =>
                   key'[r] = << spot_name[r], HourBucket(now) >>
            /\ Finishes(r) =>
                   IF hist'[r].via = "L199"
                   THEN /\ ret'[r].kind = "forecast"
                        /\ hist'[r].writes = 1
                        /\ key[r][1] = spot_name[r]
                        /\ CACHE' = [k \in DOMAIN CACHE \cup {key[r]} |->
                                        IF k = key[r] THEN ret'[r] ELSE CACHE[k]]
                   ELSE /\ CACHE' = CACHE
                        /\ hist'[r].writes = 0
            /\ (Finishes(r) /\ prev.via \in FallbackSites /\ FollowsInSameHour(r)) =>
                   hist'[r].primary = 1
      ]_vars

C1_Witness ==
    \E r \in Req :
        /\ pc[r] = "done"
        /\ hist[r].via = "L199"
        /\ hist[r].primary = 1
        /\ key[r] \in DOMAIN CACHE
        /\ CACHE[key[r]] = ret[r]
        /\ prev.via = "L118"
        /\ prev.forecast = NONE
        /\ FollowsInSameHour(r)

\* C2 as stated: the request that follows, in the same UTC hour, a request for
\* the same location that completed a primary aggregation returns that
\* request's text with no upstream call, whatever the minute.
C2_SecondServedFromCacheAnyMinute ==
    \A r \in Req :
        (pc[r] = "done" /\ prev.via = "L199" /\ FollowsInSameHour(r)) =>
            /\ ret[r] = prev.forecast
            /\ hist[r].primary = 0
            /\ hist[r].fallback = 0

\* C2 amended: the second request is served from the cache, with the first
\* request's text and no upstream call, when its cache lookup runs less than
\* CACHE_TTL_MINUTES minutes after the start of that UTC hour.
C2_SecondServedFromCacheWithinTtl ==
    [][ \A r \in Req :
            /\ ( /\ pc[r] = "L45" /\ pc'[r] = "L98"
                 /\ prev.via = "L199" /\ FollowsInSameHour(r)
                 /\ MinutesPastHour(now) < CACHE_TTL_MINUTES )
               => cached'[r] = prev.forecast
            /\ (pc[r] = "L98" /\ pc'[r] # "L98" /\ cached[r].kind = "forecast")
               => /\ pc'[r] = "done"
                  /\ ret'[r] = cached[r]
                  /\ hist'[r].primary = 0
                  /\ hist'[r].fallback = 0
      ]_vars

C2_Witness ==
    \E r \in Req :
        /\ pc[r] = "done"
        /\ hist[r].via = "L99"
        /\ prev.via = "L199"
        /\ FollowsInSameHour(r)
        /\ ret[r] = prev.forecast
        /\ hist[r].primary = 0
        /\ MinutesPastHour(now) > 0

\* C3 as stated: a get that runs within one hour returns the text stored under
\* (location, current hour bucket) whenever such an entry exists.
C3_GetReturnsEntryOfCurrentHour ==
    \A r \in Req :
        (pc[r] = "L98" /\ key[r] \in DOMAIN CACHE /\ key[r][2] = HourBucket(now)) =>
            cached[r] = CACHE[key[r]]

\* C3 amended: a get that runs within one hour, less than CACHE_TTL_MINUTES
\* minutes past its start, returns the text stored under (location, current
\* hour bucket).
C3_GetReturnsEntryWithinTtl ==
    [][ \A r \in Req :
            ( /\ pc[r] = "L45" /\ pc'[r] = "L98"
              /\ key[r] = << spot_name[r], HourBucket(now) >>
              /\ key[r] \in DOMAIN CACHE
              /\ MinutesPastHour(now) < CACHE_TTL_MINUTES )
            => cached'[r] = CACHE[key[r]]
      ]_vars

C3_Witness ==
    \E r \in Req :
        /\ pc[r] = "L98"
        /\ key[r] \in DOMAIN CACHE
        /\ key[r][2] = HourBucket(now)
        /\ MinutesPastHour(now) > 0
        /\ MinutesPastHour(now) < CACHE_TTL_MINUTES
        /\ cached[r] = CACHE[key[r]]

PrimaryFailed(r) == response[r].kind = "exception"
PrimaryStatus(r, set) == response[r].kind = "http" /\ response[r].status \in set

\* C4: a network failure and a 402 each lead to exactly one call of the
\* fallback; any other non-200 status returns the generic failure text and the
\* fallback is not called.
C4_Routing ==
    \A r \in Req :
        /\ hist[r].fallback <= 1
        /\ (hist[r].primary = 1 /\ (PrimaryFailed(r) \/ PrimaryStatus(r, {402}))) =>
               IF pc[r] = "done"
               THEN hist[r].fallback = 1 /\ hist[r].via \in {"L118", "L126"}
               ELSE hist[r].fallback = 0 /\ pc[r] \in {"L118", "L126"}
        /\ (hist[r].primary = 1 /\ response[r].kind = "http" /\ response[r].status \notin {200, 402}) =>
               /\ pc[r] = "done"
               /\ ret[r] = MSG_FAILURE
               /\ hist[r].via = "L131"
               /\ hist[r].fallback = 0

C4_Witness ==
    \E r \in Req :
        /\ pc[r] = "done"
        /\ PrimaryStatus(r, {500})
        /\ ret[r] = MSG_FAILURE
        /\ hist[r].fallback = 0

\* C5: get_surf_forecast always ends by returning text; no exception leaves it.
C5_NoUncaughtFault ==
    \A r \in Req : pc[r] = "done" => ret[r] # FAULT

\* C6: within one request the primary is called at most once and the fallback
\* at most once, the fallback only after the primary call of that request
\* ended in a network failure, a 402, an empty result or zero usable measures.
C6_EachUpstreamAtMostOnce ==
    \A r \in Req :
        /\ hist[r].primary <= 1
        /\ hist[r].fallback <= 1
        /\ pc[r] = "L115" => hist[r].primary = 0
        /\ hist[r].fallback = 1 => pc[r] = "done" /\ hist[r].via \in FallbackSites
        /\ (pc[r] \in FallbackSites \/ hist[r].fallback = 1) =>
               /\ hist[r].primary = 1
               /\ \/ PrimaryFailed(r)
                  \/ PrimaryStatus(r, {402})
                  \/ PrimaryStatus(r, {200}) /\ response[r].shape = "read"

C6_Witness ==
    \E r \in Req :
        /\ pc[r] = "done"
        /\ hist[r].via = "L183"
        /\ hist[r].primary = 1
        /\ hist[r].fallback = 1

\* C7: when get_cached_forecast returned a text, get_surf_forecast returns
\* exactly that text, calls neither upstream and does not write the cache.
C7_CacheHitIsTerminal ==
    \A r \in Req :
        Truthy(cached[r]) =>
            /\ pc[r] \in {"L98", "done"}
            /\ hist[r].primary = 0
            /\ hist[r].fallback = 0
            /\ hist[r].writes = 0
            /\ pc[r] = "done" => ret[r] = cached[r] /\ hist[r].via = "L99"

C7_Witness ==
    \E r \in Req :
        /\ pc[r] = "done"
        /\ cached[r].kind = "forecast"
        /\ ret[r] = cached[r]
        /\ hist[r].reads = 1

\* C8: a request for an unregistered key returns the not-found text before any
\* cache access or upstream call.
C8_UnknownLocationShortCircuits ==
    \A r \in Req :
        (spot_name[r] \notin SPOTS /\ pc[r] \notin {"idle", "L93"}) =>
            /\ pc[r] = "done"
            /\ ret[r] = MSG_NOT_FOUND
            /\ key[r] = NoKey
            /\ hist[r].reads = 0
            /\ hist[r].writes = 0
            /\ hist[r].primary = 0
            /\ hist[r].fallback = 0

C8_Witness ==
    \E r \in Req :
        /\ pc[r] = "done"
        /\ spot_name[r] = "ubatuba"
        /\ ret[r] = MSG_NOT_FOUND
        /\ CACHE # << >>

\* The 200 response r holds parses and its loop over the hours raises nothing.
WellFormed(resp) ==
    /\ resp.shape = "dict"
    /\ \A i \in 1..Len(resp.hours) :
           resp.hours[i].time = NoneVal
           \/ \A j \in 1..Len(Params) : resp.hours[i][Params[j]].shape = "dict"

\* C9: when the 200 response yields no measure for the current date, the
\* request goes to the fallback: no average is taken over zero measures, and a
\* summary is built only from at least one measure.
C9_NoAverageOverZeroMeasures ==
    [][ \A r \in Req :
            (pc[r] = "L133" /\ pc'[r] # "L133" /\ WellFormed(response[r])) =>
                IF MeasuresOf(response[r].hours, now \div MinutesPerDay) = << >>
                THEN pc'[r] \in {"L139", "L183"} /\ forecast_msg'[r] = NONE
                ELSE pc'[r] = "L52" /\ forecast_msg'[r].kind = "forecast"
      ]_vars

C9_Witness ==
    \E r \in Req :
        /\ pc[r] = "L183"
        /\ hist[r].primary = 1
        /\ PrimaryStatus(r, {200})

\* C10: a text get_cached_forecast returns is the entry stored under (the
\* requested location, the hour bucket current at the lookup); entries of
\* other locations and of past hours are never returned.
C10_OnlyEntryOfCurrentKey ==
    [][ \A r \in Req :
            (pc[r] = "L45" /\ pc'[r] = "L98") =>
                IF << spot_name[r], HourBucket(now) >> \in DOMAIN CACHE
                THEN cached'[r] \in {NONE, CACHE[<< spot_name[r], HourBucket(now) >>]}
                ELSE cached'[r] = NONE
      ]_vars

\* A miss after the hour rolled over, the entry of the past hour and an entry of
\* another location still being in the map.
C10_Witness ==
    \E r \in Req :
        /\ pc[r] = "L98"
        /\ cached[r] = NONE
        /\ key[r][2] = HourBucket(now)
        /\ key[r] \notin DOMAIN CACHE
        /\ \E k \in DOMAIN CACHE : k[1] = spot_name[r] /\ k[2] # key[r][2]
        /\ \E k \in DOMAIN CACHE : k[1] # spot_name[r] /\ k[2] = key[r][2]

\* ------------------------------------------------------------ C11
\* Request r is inside a cache read (lines 45-49) or a cache write (line 55).
InCache(r) == pc[r] \in {"L45", "L55"}

\* Request r is about to perform, or is performing, an upstream call.
AtUpstream(r) == pc[r] \in {"L115"} \cup FallbackSites

\* C11: with concurrent requests, at most one request at a time is inside a
\* cache read or a cache write, the lock is held by exactly the request that
\* is inside, and no request holds the lock while it is at an upstream call.
C11_CacheAccessMutuallyExclusive ==
    /\ \A r1, r2 \in Req : InCache(r1) /\ InCache(r2) => r1 = r2
    /\ \A r \in Req : InCache(r) <=> CACHE_LOCK = r
    /\ \A r \in Req : AtUpstream(r) => CACHE_LOCK # r

\* One request is inside the cache while another waits at the lock.
C11_Witness ==
    \E r1, r2 \in Req :
        /\ InCache(r1)
        /\ pc[r2] \in {"L44", "L54"}

\* One request is at an upstream call while another holds the lock.
C11_WitnessUpstream ==
    \E r1, r2 \in Req : InCache(r1) /\ AtUpstream(r2)

\* ------------------------------------------------------------ C12
\* Request r missed the cache for (s, h) and has performed its primary call.
MissedAndFetched(r, s, h) ==
    /\ spot_name[r] = s
    /\ key[r] = << s, h >>
    /\ hist[r].reads = 1
    /\ ~Truthy(cached[r])
    /\ hist[r].primary = 1

\* C12: the cache is no single-flight barrier: a request that missed and
\* stands before the primary call can always perform it, whatever the other
\* requests for the same location are doing.
C12_PrimaryFetchNeverHeldBack ==
    \A r \in Req :
        pc[r] = "L115" =>
            ENABLED (\E resp \in ConcPrimaryResponses(now) : PrimaryFetch(r, resp))

\* Two concurrent requests for one location, within one hour bucket, have both
\* missed and both performed a primary call.
C12_Witness ==
    \E r1, r2 \in Req, s \in SPOTS :
        /\ r1 # r2
        /\ MissedAndFetched(r1, s, HourBucket(now))
        /\ MissedAndFetched(r2, s, HourBucket(now))
        /\ pc[r1] = "L133"
        /\ pc[r2] = "L133"

\* ------------------------------------------------------------ C13
\* Request r missed the cache, completed a primary aggregation and stored its
\* text (line 55), and has not been answered yet.
MissedAndWrote(r) ==
    /\ pc[r] = "done"
    /\ hist[r].via = "L199"
    /\ hist[r].reads = 1
    /\ ~Truthy(cached[r])
    /\ hist[r].writes = 1

\* r1 and r2 are two concurrent requests for one location that arrived in one
\* hour bucket, both missed, and both stored under the same key.
BothWrote(r1, r2) ==
    /\ r1 # r2
    /\ MissedAndWrote(r1)
    /\ MissedAndWrote(r2)
    /\ hist[r1].hour = hist[r2].hour
    /\ key[r1] = key[r2]

\* Request r performs the write of line 55 in this step.
Writes(r) == pc[r] = "L55" /\ pc'[r] = "done"

\* C13 as stated: when two concurrent requests for one location and bucket both
\* missed and both stored, the entry is the text of either, because both
\* computed the same text.
C13_BothComputedSameText ==
    \A r1, r2 \in Req :
        BothWrote(r1, r2) =>
            /\ key[r1] \in DOMAIN CACHE
            /\ ret[r1] = ret[r2]
            /\ CACHE[key[r1]] = ret[r1]

\* C13, amended: every write of line 55 replaces whatever entry the key had by
\* the writer's text and touches no other key, so the entry of a key is the
\* text of the request that wrote last; two such requests computed the same
\* text when they received the same hourly data and read the same date.
C13_LastWriterWins ==
    /\ [](\A r1, r2 \in Req :
            BothWrote(r1, r2) =>
                /\ key[r1] \in DOMAIN CACHE
                /\ (response[r1].hours = response[r2].hours
                    /\ hist[r1].today = hist[r2].today) => ret[r1] = ret[r2])
    /\ [][ /\ \A r \in Req :
                Writes(r) =>
                    /\ ret'[r] = forecast_msg[r]
                    /\ CACHE' = [k \in DOMAIN CACHE \cup {key[r]} |->
                                    IF k = key[r] THEN ret'[r] ELSE CACHE[k]]
           /\ (\A r \in Req : ~Writes(r)) => CACHE' = CACHE
         ]_vars

\* Both stored different texts under one key; the entry is the text of one of
\* them, which replaced the other's.
C13_Witness ==
    \E r1, r2 \in Req :
        /\ BothWrote(r1, r2)
        /\ ret[r1] # ret[r2]
        /\ CACHE[key[r1]] = ret[r2]

\* ------------------------------------------------------------ C14
\* The fallback call of request r failed: a network error, a status other than
\* 200, or a body with no wave or no wind values.
FallbackFailed(r) ==
    /\ pc[r] = "done"
    /\ hist[r].via \in FallbackSites
    /\ \/ hist[r].fb.kind = "exception"
       \/ hist[r].fb.kind = "http" /\ hist[r].fb.status # 200
       \/ /\ hist[r].fb.kind = "http" /\ hist[r].fb.status = 200
          /\ hist[r].fb.shape = "dict"
          /\ (hist[r].fb.waves = <<>> \/ hist[r].fb.winds = <<>>)

\* C14 as stated: after a failed fallback the reply is one fallback-specific
\* message, the same whatever primary outcome led to the fallback, and not the
\* message of a generic primary failure.
C14_OneFallbackSpecificMessage ==
    \A r \in Req :
        FallbackFailed(r) =>
            /\ ret[r] # MSG_FAILURE
            /\ \A r2 \in Req : FallbackFailed(r2) => ret[r2] = ret[r]

\* C14, amended: a failed fallback is terminal: exactly one fallback call
\* and at most one primary call were made, nothing is cached, and the request
\* only waits to be answered. The reply is the generic failure message when
\* the fallback was entered after a network error or a 402 of the primary, and
\* the insufficient-data message when it was entered after a 200 response with
\* no hours or no measures for today.
C14_FallbackFailureIsTerminal ==
    /\ [](\A r \in Req :
            FallbackFailed(r) =>
                /\ hist[r].fallback = 1
                /\ hist[r].primary = 1
                /\ hist[r].writes = 0
                /\ ret[r] = IF PrimaryFailed(r) \/ PrimaryStatus(r, {402})
                            THEN MSG_FAILURE
                            ELSE MSG_INSUFFICIENT
                /\ PrimaryFailed(r) \/ PrimaryStatus(r, {402, 200}))
    /\ [][\A r \in Req :
            FallbackFailed(r) =>
                /\ CACHE' = CACHE \/ \E r2 \in Req \ {r} : Writes(r2)
                /\ \/ pc'[r] = "idle"
                   \/ pc'[r] = "done" /\ hist'[r] = hist[r] /\ ret'[r] = ret[r]
         ]_vars

\* A fallback that failed after a 402 of the primary is answered with the
\* generic failure message.
C14_Witness ==
    \E r \in Req :
        /\ FallbackFailed(r)
        /\ PrimaryStatus(r, {402})
        /\ hist[r].fb.kind = "http"
        /\ ret[r] = MSG_FAILURE

\* A fallback that failed after a 200 with no measure for today is answered with
\* the insufficient-data message.
C14_WitnessInsufficient ==
    \E r \in Req :
        /\ FallbackFailed(r)
        /\ hist[r].via = "L183"
        /\ hist[r].fb.kind = "exception"
        /\ ret[r] = MSG_INSUFFICIENT

\* ------------------------------------------------------------ C16
\* Request r runs lines 45-49 of get_cached_forecast in this step.
Looks(r) == pc[r] = "L45" /\ pc'[r] = "L98"

\* C16: get_cached_forecast returns an entry only while fewer than
\* CACHE_TTL_MINUTES minutes have passed since the start of the current UTC
\* hour; from minute 30 on it returns a miss for every location, whether or
\* not the entry of the current hour is in the map.
C16_HitOnlyInFirstHalfOfHour ==
    [][ \A r \in Req :
            Looks(r) =>
                /\ Truthy(cached'[r]) =>
                       /\ MinutesPastHour(now) < CACHE_TTL_MINUTES
                       /\ key[r][2] = HourBucket(now)
                /\ MinutesPastHour(now) >= CACHE_TTL_MINUTES => cached'[r] = NONE
      ]_vars

\* A lookup in the second half of the hour misses although the entry of the
\* current hour is in the map.
C16_Witness ==
    \E r \in Req :
        /\ pc[r] = "L98"
        /\ cached[r] = NONE
        /\ key[r] = << spot_name[r], HourBucket(now) >>
        /\ key[r] \in DOMAIN CACHE
        /\ MinutesPastHour(now) >= CACHE_TTL_MINUTES

\* ------------------------------------------------------------ C18
\* The value of the first source, in the order noaa, sg, meteo, that reports
\* parameter p; NoneVal when none does.
FirstNonNull(p) ==
    IF p.noaa # NoneVal THEN p.noaa
    ELSE IF p.sg # NoneVal THEN p.sg
    ELSE p.meteo

\* All four fields of the record resolve.
Resolves(h) ==
    \A f \in {"waveHeight", "wavePeriod", "windSpeed", "windDirection"} :
        FirstNonNull(h[f]) # NoneVal

\* The record carries a readable time stamp that falls on date d.
DatedOn(h, d) == h.time # NoneVal /\ h.time \div MinutesPerDay = d

\* The records of the list that are dated on d and resolve, in order.
ResolvedOn(hs, d) == SelectSeq(hs, LAMBDA h : DatedOn(h, d) /\ Resolves(h))

\* Sum of the resolved values of field f over a list of records.
RECURSIVE ResolvedSum(_, _)
ResolvedSum(recs, f) ==
    IF recs = <<>> THEN 0 ELSE FirstNonNull(Head(recs)[f]) + ResolvedSum(Tail(recs), f)

\* Request r runs the aggregation of lines 133-195 in this step and leaves it
\* without an exception.
Aggregates(r) == pc[r] = "L133" /\ pc'[r] \in {"L52", "L183"}

\* C18: the 24-hour summary averages the measures dated on the UTC date current
\* when the aggregation runs, and only those; when that date has no measure the
\* request goes to the fallback, whatever the measures of the next day.
C18_OnlyMeasuresOfToday ==
    [][ \A r \in Req :
            Aggregates(r) =>
                LET recs == ResolvedOn(response[r].hours, now \div MinutesPerDay)
                IN  IF recs = <<>>
                    THEN pc'[r] = "L183" /\ forecast_msg'[r] = NONE
                    ELSE /\ pc'[r] = "L52"
                         /\ forecast_msg'[r].kind = "forecast"
                         /\ forecast_msg'[r].body[2] =
                                Format1f(ResolvedSum(recs, "waveHeight"), Len(recs))
                         /\ forecast_msg'[r].body[3] =
                                Format1f(ResolvedSum(recs, "wavePeriod"), Len(recs))
                         /\ forecast_msg'[r].body[4] =
                                Format1f(ResolvedSum(recs, "windSpeed"), Len(recs))
                         /\ forecast_msg'[r].body[5] =
                                degrees_to_direction(ResolvedSum(recs, "windDirection"), Len(recs))
      ]_vars

\* The response held a measure of the next day and none of today, and the
\* request went to the fallback.
C18_Witness ==
    \E r \in Req :
        /\ pc[r] = "L183"
        /\ ResolvedOn(response[r].hours, hist[r].today) = <<>>
        /\ ResolvedOn(response[r].hours, hist[r].today + 1) # <<>>

\* The response held measures of today and of the next day, and the summary is
\* the average of today's alone.
C18_WitnessAverage ==
    \E r \in Req :
        /\ pc[r] = "L52"
        /\ ResolvedOn(response[r].hours, hist[r].today) # <<>>
        /\ ResolvedOn(response[r].hours, hist[r].today + 1) # <<>>
        /\ forecast_msg[r].body[2] =
               Format1f(ResolvedSum(ResolvedOn(response[r].hours, hist[r].today), "waveHeight"),
                        Len(ResolvedOn(response[r].hours, hist[r].today)))

\* ------------------------------------------------------------ C19
\* C19: the cache never evicts: no step removes a key; a key whose hour has
\* passed stays in the map, no lookup key is built for it and no lookup returns
\* its entry; and the location of every key is one of the registered ones.
C19_NoEviction ==
    /\ [](\A k \in DOMAIN CACHE : k[1] \in SPOTS /\ Truthy(CACHE[k]))
    /\ [][ /\ DOMAIN CACHE \subseteq DOMAIN CACHE'
           /\ \A r \in Req :
                /\ (pc[r] = "L42" /\ pc'[r] = "L44") => key'[r][2] = HourBucket(now)
                /\ (Looks(r) /\ key[r][2] # HourBucket(now)) => cached'[r] = NONE
         ]_vars

\* The entry of a past hour is still in the map after a write in the current
\* hour and a lookup that missed.
C19_Witness ==
    \E k1, k2 \in DOMAIN CACHE :
        /\ k1[2] # HourBucket(now)
        /\ k2[2] = HourBucket(now)
        /\ \E r \in Req : pc[r] = "L98" /\ key[r][1] = k1[1] /\ ~Truthy(cached[r])

\* ------------------------------------------------------------ C15
\* The eight labels, clockwise from north.
CompassLabel(ix) ==
    CASE ix = 0 -> "Norte"
      [] ix = 1 -> "Nordeste"
      [] ix = 2 -> "Leste"
      [] ix = 3 -> "Sudeste"
      [] ix = 4 -> "Sul"
      [] ix = 5 -> "Sudoeste"
      [] ix = 6 -> "Oeste"
      [] ix = 7 -> "Noroeste"

\* The integer part of a/b (b > 0), rounding towards zero: the one integer q
\* with q <= a/b < q + 1 when a/b >= 0 and q - 1 < a/b <= q when a/b < 0.
IntegerPart(a, b) ==
    CHOOSE q \in (0 - MaxDegrees) .. MaxDegrees :
        IF a >= 0 THEN b * q <= a /\ a < b * (q + 1)
                  ELSE b * (q - 1) < a /\ a <= b * q

\* The bearing at hand is n half degrees.
Bearing(n) == degrees = << n, 2 >>

\* C15: degrees_to_direction returns, for every bearing d, the label of index
\* trunc((d + 22.5) / 45) mod 8, also for d of 337.5 and more and for d outside
\* 0..359; bearings from 337.5 up to 360 give Norte, 0 gives Norte, 45 gives
\* Nordeste, 359 gives Norte and 203 gives Sudoeste.
C15_DirectionOfEveryBearing ==
    applied = "degrees_to_direction" =>
        /\ direction = CompassLabel(IntegerPart(2 * degrees[1] + 45 * degrees[2],
                                                90 * degrees[2]) % 8)
        /\ (\E n \in 675 .. 719 : Bearing(n)) => direction = "Norte"
        /\ Bearing(0) => direction = "Norte"
        /\ Bearing(90) => direction = "Nordeste"
        /\ Bearing(718) => direction = "Norte"
        /\ Bearing(406) => direction = "Sudoeste"

\* A bearing of 337.5 degrees has been given Norte.
C15_Witness == applied = "degrees_to_direction" /\ Bearing(675) /\ direction = "Norte"

\* A bearing of -90 degrees has been given Noroeste.
C15_WitnessNegative == applied = "degrees_to_direction" /\ Bearing(0 - 180) /\ direction = "Noroeste"

\* ------------------------------------------------------------ C17
\* forecast_per_day.get(d, []).
MeasuresFor(d) == IF d \in DOMAIN forecast_per_day THEN forecast_per_day[d] ELSE << >>

\* The measure a resolving record gives.
MeasureFrom(h) ==
    [wave_height |-> FirstNonNull(h.waveHeight), wave_period |-> FirstNonNull(h.wavePeriod),
     wind_speed |-> FirstNonNull(h.windSpeed), wind_dir |-> FirstNonNull(h.windDirection)]

\* The dates a record of the inputs can carry, and one more.
Dates == 0 .. (StartTime + MinutesPerDay) \div MinutesPerDay + 1

\* C17: for every list of hourly records and every date, the measures of the
\* date are, in order, one measure for each record of that date in which all
\* four fields resolve, each field being the value of the first of noaa, sg,
\* meteo that reports it; a record with an unresolved field contributes none.
C17_OneMeasurePerResolvedRecord ==
    applied = "group" =>
        \A d \in Dates :
            LET recs == ResolvedOn(hours, d)
            IN  /\ Len(MeasuresFor(d)) = Len(recs)
                /\ \A i \in 1..Len(recs) : MeasuresFor(d)[i] = MeasureFrom(recs[i])

\* Two records of one date, one resolved from lower-priority sources and one
\* with a field unresolved, have given one measure.
C17_Witness ==
    /\ applied = "group"
    /\ Len(hours) = 2
    /\ hours[1].time # NoneVal
    /\ hours[2].time = hours[1].time
    /\ ~Resolves(hours[1])
    /\ Resolves(hours[2])
    /\ hours[2].waveHeight.noaa = NoneVal
    /\ MeasuresFor(hours[1].time \div MinutesPerDay) = << MeasureFrom(hours[2]) >>

\* ------------------------------------------------------------ C20
\* How far a request has got: its lines in the order control passes them.
Rank(line) ==
    CASE line = "idle" -> 0
      [] line = "L93" -> 1
      [] line = "L42" -> 2
      [] line = "L44" -> 3
      [] line = "L45" -> 4
      [] line = "L98" -> 5
      [] line = "L115" -> 6
      [] line \in {"L118", "L126", "L133"} -> 7
      [] line \in {"L139", "L183", "L52"} -> 8
      [] line = "L54" -> 9
      [] line = "L55" -> 10
      [] line = "done" -> 11

====
